---- MODULE Spec2Model ----
(***************************************************************************)
(* Model of src/cli/app.py: a click multi-command pipeline.  Every         *)
(* subcommand returns a stream processor; process_commands folds the       *)
(* processors over the empty stream and then drains the resulting chain of *)
(* Python generators.  The model follows the generators frame by frame:    *)
(* `cur' is the frame that holds control, `sig' is what it has just been   *)
(* handed (a next() call from downstream, or an item, StopIteration or an  *)
(* exception coming back from upstream).                                   *)
(***************************************************************************)
EXTENDS Integers, Sequences, FiniteSets, TLC

VARIABLES pipeline, pc, stream, gen, cur, sig, log, stderr, raised,
          emitted, recv, fs, uncaught, exitCode, arg, parsed

vars == <<pipeline, pc, stream, gen, cur, sig, log, stderr, raised,
          emitted, recv, fs, uncaught, exitCode, arg, parsed>>

pipeVars == <<pipeline, pc, stream, gen, cur, sig, log, stderr, raised,
              emitted, recv, fs, uncaught, exitCode>>

(* ---------------------------- bounds ----------------------------------- *)
\* longest pipeline (number of chained subcommands) explored
MaxStages == 3
\* longest loose-parameter string explored
MaxLen == 5

(* ------------------- strings (sequences of characters) ------------------ *)
Chars == {"k", "1", "0", "=", "|"}
Digits == {"0", "1"}

RECURSIVE StringsOfLen(_)
StringsOfLen(n) ==
    IF n = 0 THEN {<<>>}
    ELSE {Append(s, c) : s \in StringsOfLen(n - 1), c \in Chars}

Strings == UNION {StringsOfLen(n) : n \in 0..MaxLen}

\* index of the first occurrence of sep in s, 0 when there is none
FirstIndex(s, sep) ==
    IF \E i \in 1..Len(s) : s[i] = sep
    THEN CHOOSE i \in 1..Len(s) : s[i] = sep /\ \A j \in 1..(i - 1) : s[j] # sep
    ELSE 0

\* str.split(sep): always at least one piece, empty pieces are kept
RECURSIVE split(_, _)
split(s, sep) ==
    LET i == FirstIndex(s, sep)
    IN  IF i = 0 THEN <<s>>
        ELSE <<SubSeq(s, 1, i - 1)>> \o split(SubSeq(s, i + 1, Len(s)), sep)

RECURSIVE DecimalValue(_)
DecimalValue(s) ==
    IF s = <<>> THEN 0
    ELSE 10 * DecimalValue(SubSeq(s, 1, Len(s) - 1))
         + (IF s[Len(s)] = "1" THEN 1 ELSE 0)

\* ast.literal_eval on the model's alphabet: a decimal integer literal is a
\* non-empty run of digits with no leading zero unless it is all zeros; a
\* bare name, the empty text and anything else raise.
literal_eval(s) ==
    IF /\ Len(s) > 0
       /\ \A i \in 1..Len(s) : s[i] \in Digits
       /\ (s[1] # "0" \/ \A i \in 1..Len(s) : s[i] = "0")
    THEN [ok |-> TRUE, v |-> DecimalValue(s)]
    ELSE [ok |-> FALSE, v |-> 0]

IntVal(n) == [t |-> "int", n |-> n, s |-> <<>>]
StrVal(s) == [t |-> "str", n |-> 0, s |-> s]

EmptyDict == [x \in {} |-> IntVal(0)]
SetItem(d, k, v) == [x \in (DOMAIN d) \cup {k} |-> IF x = k THEN v ELSE d[x]]

\* the value stored for one segment: the literal when literal_eval succeeds,
\* the raw text otherwise
StoredValue(text) ==
    LET lit == literal_eval(text)
    IN  IF lit.ok THEN IntVal(lit.v) ELSE StrVal(text)

RawValue(text) == StrVal(text)

RECURSIVE ParseParamsRaw(_, _)
ParseParamsRaw(params, d) ==
    IF params = <<>> THEN [ok |-> TRUE, d |-> d, err |-> "none"]
    ELSE LET splitted == split(Head(params), "=")
         IN  IF Len(splitted) < 2
             THEN [ok |-> FALSE, d |-> EmptyDict, err |-> "IndexError"]
             ELSE ParseParamsRaw(Tail(params),
                                 SetItem(d, splitted[1], RawValue(splitted[2])))

RECURSIVE ParseParamsSkip(_, _)
ParseParamsSkip(params, d) ==
    IF params = <<>> THEN [ok |-> TRUE, d |-> d, err |-> "none"]
    ELSE LET splitted == split(Head(params), "=")
         IN  IF Len(splitted) < 2
             THEN ParseParamsSkip(Tail(params), d)
             ELSE ParseParamsSkip(Tail(params),
                                  SetItem(d, splitted[1], StoredValue(splitted[2])))

\* str.split(sep, 1): cut at the first separator only
split_once(s, sep) ==
    LET i == FirstIndex(s, sep)
    IN  IF i = 0 THEN <<s>>
        ELSE <<SubSeq(s, 1, i - 1), SubSeq(s, i + 1, Len(s))>>

RECURSIVE ParseParamsMaxsplit(_, _)
ParseParamsMaxsplit(params, d) ==
    IF params = <<>> THEN [ok |-> TRUE, d |-> d, err |-> "none"]
    ELSE LET splitted == split_once(Head(params), "=")
         IN  IF Len(splitted) < 2
             THEN [ok |-> FALSE, d |-> EmptyDict, err |-> "IndexError"]
             ELSE ParseParamsMaxsplit(Tail(params),
                                      SetItem(d, splitted[1], StoredValue(splitted[2])))

\* the loop of args_to_dict over the '|'-separated segments; splitted[1] of
\* the source is splitted[2] here (sequences are 1-based).  A segment
\* without '=' raises IndexError in the try and again in the except.
RECURSIVE ParseParams(_, _)
ParseParams(params, d) ==
    IF params = <<>> THEN [ok |-> TRUE, d |-> d, err |-> "none"]
    ELSE LET splitted == split(Head(params), "=")
         IN  IF Len(splitted) < 2
             THEN [ok |-> FALSE, d |-> EmptyDict, err |-> "IndexError"]
             ELSE ParseParams(Tail(params),
                              SetItem(d, splitted[1], StoredValue(splitted[2])))

args_to_dict(a) ==
    IF a # <<>> THEN ParseParams(split(a, "|"), EmptyDict)
    ELSE [ok |-> TRUE, d |-> EmptyDict, err |-> "none"]

NotParsed == [ok |-> FALSE, d |-> EmptyDict, err |-> "not called"]

(* ----------------------- files and the file system ---------------------- *)
File(d, s, e) == [dir |-> d, stem |-> s, ext |-> e]
ACsv == File("", "a", ".csv")
BCsv == File("", "b", ".csv")
MissingCsv == File("", "missing", ".csv")
ATxt == File("", "a", ".txt")
OutCsv == File("", "out", ".csv")
OutTxt == File("", "out", ".txt")
NoDirCsv == File("nodir", "o", ".csv")
NoFile == File("", "", "")

FileNames == {ACsv, BCsv, MissingCsv, ATxt, OutCsv, OutTxt, NoDirCsv}
Dirs == {""}

\* what a file holds: the table, the number of filters it went through and
\* idx, the number of unnamed index columns written in front of its columns
Content(d, q) == [data |-> d, q |-> q, idx |-> 0]
Absent == Content("absent", 0)

\* the files present when the program starts
InitFs ==
    [f \in FileNames |->
        IF f \in {ACsv, ATxt} THEN Content("A", 0)
        ELSE IF f = BCsv THEN Content("B", 0)
        ELSE Absent]

isfile(fsys, f) == fsys[f] # Absent
splitext(f) == <<f.stem, f.ext>>

\* the keys of the two extension tables
CONFIG == [read_functions |-> {".csv", ".xlsx"},
           to_functions   |-> {".csv", ".xlsx"}]

(* ------------------------------ commands -------------------------------- *)
ParamNone == <<>>
ParamOk == <<"k", "=", "1">>
ParamBad == <<"k">>

Cmd(n, f, p, e) == [name |-> n, filename |-> f, params |-> p, expression |-> e]
Read(f, p) == Cmd("read", f, p, "")
HeadC == Cmd("head", NoFile, <<>>, "")
Filter(e) == Cmd("filter", NoFile, <<>>, e)
To(f, p) == Cmd("to", f, p, "")
InfoC == Cmd("info", NoFile, <<>>, "")
PrintC == Cmd("print", NoFile, <<>>, "")

GoodExpr == "x>1"
BadExpr == "bad syntax ("

Commands ==
    {Read(f, ParamNone) : f \in {ACsv, BCsv, MissingCsv, ATxt}}
    \cup {Read(ACsv, ParamOk), Read(ACsv, ParamBad)}
    \cup {HeadC, InfoC, PrintC, Filter(GoodExpr), Filter(BadExpr)}
    \cup {To(OutCsv, ParamNone), To(OutTxt, ParamNone),
          To(OutCsv, ParamBad), To(NoDirCsv, ParamNone)}

RECURSIVE PipelinesOfLen(_)
PipelinesOfLen(n) ==
    IF n = 0 THEN {<<>>}
    ELSE {Append(p, c) : p \in PipelinesOfLen(n - 1), c \in Commands}

Pipelines == UNION {PipelinesOfLen(n) : n \in 0..MaxStages}

\* read is wrapped by @generator, the other five by @processor alone
IsSource(cmd) == cmd.name = "read"

(* --------------------- items, exceptions, effects ----------------------- *)
\* origin is the index of the read stage that produced the dataset the item
\* is, or is derived from
\* idx is the number of columns the dataset has beyond those of its table
Item(kind, data, origin, q) ==
    [kind |-> kind, data |-> data, origin |-> origin, q |-> q, idx |-> 0]
NoItem == Item("absent", "", 0, 0)
\* pd.read_csv with default options: every column of the file, the unnamed
\* ones included, becomes a column of the dataset
DataFrame(content, origin) ==
    [Item("df", content.data, origin, content.q) EXCEPT !.idx = content.idx]
\* CONFIG["to_functions"][".csv"] with no option: DataFrame.to_csv writes the
\* row index as an additional first column
to_csv(df) == [data |-> df.data, q |-> df.q, idx |-> df.idx + 1]
NoneItem(origin) == Item("None", "", origin, 0)

Exc(type, stage, text) == [type |-> type, stage |-> stage, text |-> text]
NoExc == Exc("none", 0, "")

Effect(stage, op, file, item) == [stage |-> stage, op |-> op, file |-> file, item |-> item]

Yield(item, eff, fsys) == [exc |-> NoExc, out |-> item, eff |-> eff, fs |-> fsys]
Raise(e, eff, fsys) == [exc |-> e, out |-> NoItem, eff |-> eff, fs |-> fsys]

\* the external engine: DataFrame.query raises on an invalid expression
QueryValid(expression) == expression # BadExpr

\* the external engine: writing into a directory that does not exist fails
DirExists(f) == f.dir \in Dirs

(* ------------------------- the stage bodies ----------------------------- *)
\* read_cmd: one run of the body, up to its yield or its raise
read_cmd(i, cmd, fsys) ==
    LET f == cmd.filename
        chk == Effect(i, "isfile", f, NoItem)
    IN  IF ~isfile(fsys, f)
        THEN Raise(Exc("FileNotFoundError", i, f.stem), <<chk>>, fsys)
        ELSE LET fextension == splitext(f)[2]
                 pd_params == IF cmd.params # <<>> THEN args_to_dict(cmd.params)
                              ELSE [ok |-> TRUE, d |-> EmptyDict, err |-> "none"]
             IN  IF ~pd_params.ok
                 THEN Raise(Exc("IndexError", i, "list index out of range"),
                            <<chk, chk>>, fsys)
                 ELSE IF fextension \notin CONFIG.read_functions
                 THEN Raise(Exc("KeyError", i, fextension), <<chk, chk>>, fsys)
                 ELSE Yield(DataFrame(fsys[f], i),
                            <<chk, chk, Effect(i, "read", f, NoItem)>>, fsys)

head_cmd_passthrough(i, cmd, df, fsys) ==
    IF df.kind # "df"
    THEN Raise(Exc("AttributeError", i, "head"), <<>>, fsys)
    ELSE Yield(df, <<Effect(i, "print", NoFile, df)>>, fsys)

\* head_cmd: the loop body for one item
head_cmd(i, cmd, df, fsys) ==
    IF df.kind # "df"
    THEN Raise(Exc("AttributeError", i, "head"), <<>>, fsys)
    ELSE Yield(NoneItem(df.origin), <<Effect(i, "print", NoFile, df)>>, fsys)

filter_cmd_lenient(i, cmd, df, fsys) ==
    IF df.kind # "df"
    THEN Raise(Exc("AttributeError", i, "query"), <<>>, fsys)
    ELSE LET out == IF QueryValid(cmd.expression)
                    THEN [df EXCEPT !.q = @ + 1] ELSE df
         IN  Yield(out, <<Effect(i, "print", NoFile, out)>>, fsys)

\* filter_cmd: the loop body for one item
filter_cmd(i, cmd, df, fsys) ==
    IF df.kind # "df"
    THEN Raise(Exc("AttributeError", i, "query"), <<>>, fsys)
    ELSE IF ~QueryValid(cmd.expression)
    THEN Raise(Exc("SyntaxError", i, cmd.expression), <<>>, fsys)
    ELSE LET out == [df EXCEPT !.q = @ + 1]
         IN  Yield(out, <<Effect(i, "print", NoFile, out)>>, fsys)

to_cmd_once(i, cmd, df, fsys) ==
    LET f == cmd.filename
        fextension == splitext(f)[2]
    IN  IF fextension \notin CONFIG.to_functions
        THEN Raise(Exc("KeyError", i, fextension), <<>>, fsys)
        ELSE LET pd_params == IF cmd.params # <<>> THEN args_to_dict(cmd.params)
                              ELSE [ok |-> TRUE, d |-> EmptyDict, err |-> "none"]
             IN  IF ~pd_params.ok
                 THEN Raise(Exc("IndexError", i, "list index out of range"), <<>>, fsys)
                 ELSE IF df.kind # "df"
                 THEN Raise(Exc("AttributeError", i, "to_csv"), <<>>, fsys)
                 ELSE IF ~DirExists(f)
                 THEN Raise(Exc("OSError", i, f.dir), <<>>, fsys)
                 ELSE IF isfile(fsys, f)
                 THEN Yield(NoneItem(df.origin), <<>>, fsys)
                 ELSE Yield(NoneItem(df.origin),
                            <<Effect(i, "write", f, df)>>,
                            [fsys EXCEPT ![f] = to_csv(df)])

\* to_cmd: the loop body for one item
to_cmd(i, cmd, df, fsys) ==
    LET f == cmd.filename
        fextension == splitext(f)[2]
    IN  IF fextension \notin CONFIG.to_functions
        THEN Raise(Exc("KeyError", i, fextension), <<>>, fsys)
        ELSE LET pd_params == IF cmd.params # <<>> THEN args_to_dict(cmd.params)
                              ELSE [ok |-> TRUE, d |-> EmptyDict, err |-> "none"]
             IN  IF ~pd_params.ok
                 THEN Raise(Exc("IndexError", i, "list index out of range"), <<>>, fsys)
                 ELSE IF df.kind # "df"
                 THEN Raise(Exc("AttributeError", i, "to_csv"), <<>>, fsys)
                 ELSE IF ~DirExists(f)
                 THEN Raise(Exc("OSError", i, f.dir), <<>>, fsys)
                 ELSE Yield(NoneItem(df.origin),
                            <<Effect(i, "write", f, df)>>,
                            [fsys EXCEPT ![f] = to_csv(df)])

\* info_cmd (command "info"): the loop body for one item
info_cmd(i, cmd, df, fsys) ==
    IF df.kind # "df"
    THEN Raise(Exc("AttributeError", i, "info"), <<>>, fsys)
    ELSE Yield(NoneItem(df.origin), <<Effect(i, "print", NoFile, df)>>, fsys)

\* the second info_cmd (command "print"): the loop body for one item
print_cmd(i, cmd, df, fsys) ==
    IF df.kind # "df"
    THEN Raise(Exc("AttributeError", i, "shape"), <<>>, fsys)
    ELSE Yield(NoneItem(df.origin), <<Effect(i, "print", NoFile, df)>>, fsys)

(* ------------------------- generators and signals ----------------------- *)
\* st: absent (not built yet), created, running, suspended, returned, raised,
\* None (the adapter returned no stream); ph: the yield-from of
\* generator.new_func the generator is in (0 for the other stages)
GenState(st, ph) == [st |-> st, ph |-> ph]

Sig(t, item, e) == [t |-> t, item |-> item, exc |-> e]
Idle == Sig("idle", NoItem, NoExc)
Call == Sig("call", NoItem, NoExc)
Stop == Sig("stop", NoItem, NoExc)
ItemSig(item) == Sig("item", item, NoExc)
ExcSig(e) == Sig("exc", NoItem, e)

\* generator.new_func: the two delegations, in source order
generatorBodySwapped == <<"own", "stream">>

generatorBody == <<"stream", "own">>

\* `yield from stream' hands an upstream item to the consumer of stage i
yield_from_stream_discard(i, item) == [to |-> i - 1, sig |-> Call, emit |-> <<>>]

yield_from_stream(i, item) == [to |-> i + 1, sig |-> ItemSig(item), emit |-> <<item>>]

\* an input of the adapter other than the six commands: a wrapped function
\* that is not a generator function and raises when it is called
RaisingC == Cmd("raising", NoFile, <<>>, "")

CallRaisesEager(cmd) ==
    \/ cmd = RaisingC
    \/ cmd.name = "to" /\ splitext(cmd.filename)[2] \notin CONFIG.to_functions

\* processor(stream) calls f(stream, ...) inside the try; each of the six
\* commands contains yield, so the call builds a generator object and runs
\* no statement of its body: it cannot raise
CallRaises(cmd) == cmd = RaisingC

\* the for loop over processors has run out
FoldCompleteEarly == stream >= 1

FoldComplete == stream = Len(pipeline)

(* ------------------------------- Init ----------------------------------- *)
Init ==
    /\ pipeline \in Pipelines
    /\ pc = "fold"
    /\ stream = 0
    /\ gen = [i \in 1..Len(pipeline) |-> GenState("absent", 0)]
    /\ cur = 0
    /\ sig = Idle
    /\ log = <<>>
    /\ stderr = <<>>
    /\ raised = <<>>
    /\ emitted = [i \in 0..Len(pipeline) |-> <<>>]
    /\ recv = [i \in 1..(Len(pipeline) + 1) |-> <<>>]
    /\ fs = InitFs
    /\ uncaught = NoExc
    /\ exitCode = -1
    /\ arg = <<>>
    /\ parsed = NotParsed

(* ------------------------- process_commands ----------------------------- *)
\* stream = processor(stream): one iteration of the for loop
Fold ==
    /\ pc = "fold"
    /\ stream < Len(pipeline)
    /\ stream' = stream + 1
    /\ IF CallRaises(pipeline[stream + 1])
       THEN /\ gen' = [gen EXCEPT ![stream + 1] = GenState("None", 0)]
            /\ stderr' = Append(stderr, [stage |-> stream + 1, text |-> "Error"])
       ELSE /\ gen' = [gen EXCEPT ![stream + 1] = GenState("created", 0)]
            /\ stderr' = stderr
    /\ UNCHANGED <<pipeline, pc, cur, sig, log, raised, emitted, recv, fs,
                   uncaught, exitCode, arg, parsed>>

\* the drain loop `for _ in stream' is entered
StartDrain ==
    /\ pc = "fold"
    /\ FoldComplete
    /\ pc' = "drain"
    /\ cur' = stream + 1
    /\ sig' = Idle
    /\ UNCHANGED <<pipeline, stream, gen, log, stderr, raised, emitted, recv,
                   fs, uncaught, exitCode, arg, parsed>>

\* the drain loop asks the outermost stream for its next item
DrainNext ==
    /\ pc = "drain"
    /\ cur = stream + 1
    /\ sig.t \in {"idle", "item"}
    /\ recv' = IF sig.t = "item" THEN [recv EXCEPT ![cur] = Append(@, sig.item)]
               ELSE recv
    /\ cur' = stream
    /\ sig' = Call
    /\ UNCHANGED <<pipeline, pc, stream, gen, log, stderr, raised, emitted, fs,
                   uncaught, exitCode, arg, parsed>>

\* the outermost stream is exhausted: process_commands returns
DrainStop ==
    /\ pc = "drain"
    /\ cur = stream + 1
    /\ sig.t = "stop"
    /\ pc' = "done"
    /\ exitCode' = 0
    /\ UNCHANGED <<pipeline, stream, gen, cur, sig, log, stderr, raised,
                   emitted, recv, fs, uncaught, arg, parsed>>

\* an exception comes out of the outermost stream: process_commands has no
\* handler, the exception leaves it and the interpreter exits with status 1
DrainRaise ==
    /\ pc = "drain"
    /\ cur = stream + 1
    /\ sig.t = "exc"
    /\ pc' = "crashed"
    /\ uncaught' = sig.exc
    /\ exitCode' = 1
    /\ UNCHANGED <<pipeline, stream, gen, cur, sig, log, stderr, raised,
                   emitted, recv, fs, arg, parsed>>

\* next() on the iterator of the empty tuple the fold starts from
EmptyStream ==
    /\ pc = "drain"
    /\ cur = 0
    /\ sig.t = "call"
    /\ cur' = 1
    /\ sig' = Stop
    /\ UNCHANGED <<pipeline, pc, stream, gen, log, stderr, raised, emitted,
                   recv, fs, uncaught, exitCode, arg, parsed>>

(* --------------------------- stage generators --------------------------- *)
InStage == pc = "drain" /\ cur \in 1..stream

GenStep(newGen, newCur, newSig, newLog, newEmitted, newRecv, newRaised, newFs) ==
    /\ gen' = [gen EXCEPT ![cur] = newGen]
    /\ cur' = newCur
    /\ sig' = newSig
    /\ log' = newLog
    /\ emitted' = newEmitted
    /\ recv' = newRecv
    /\ raised' = newRaised
    /\ fs' = newFs
    /\ UNCHANGED <<pipeline, pc, stream, stderr, uncaught, exitCode, arg, parsed>>

\* a @processor stage is asked for its next item: `for df in dfs' pulls
TransformNext ==
    /\ InStage
    /\ ~IsSource(pipeline[cur])
    /\ sig.t = "call"
    /\ gen[cur].st \in {"created", "suspended"}
    /\ GenStep(GenState("running", 0), cur - 1, Call, log, emitted, recv, raised, fs)

ApplyBodyTwice(r) ==
    LET got == [recv EXCEPT ![cur] = Append(@, sig.item)]
    IN  IF r.exc = NoExc
        THEN GenStep(GenState("suspended", 0), cur + 1, ItemSig(r.out),
                     log \o r.eff,
                     [emitted EXCEPT ![cur] = Append(Append(@, r.out), r.out)],
                     got, raised, r.fs)
        ELSE GenStep(GenState("raised", 0), cur + 1, ExcSig(r.exc),
                     log \o r.eff, emitted, got, Append(raised, r.exc), r.fs)

\* the outcome r of one run of a loop body on the item just pulled
ApplyBody(r) ==
    LET got == [recv EXCEPT ![cur] = Append(@, sig.item)]
    IN  IF r.exc = NoExc
        THEN GenStep(GenState("suspended", 0), cur + 1, ItemSig(r.out),
                     log \o r.eff, [emitted EXCEPT ![cur] = Append(@, r.out)],
                     got, raised, r.fs)
        ELSE GenStep(GenState("raised", 0), cur + 1, ExcSig(r.exc),
                     log \o r.eff, emitted, got, Append(raised, r.exc), r.fs)

HeadStep ==
    /\ InStage
    /\ pipeline[cur].name = "head"
    /\ sig.t = "item"
    /\ ApplyBody(head_cmd(cur, pipeline[cur], sig.item, fs))

FilterStep ==
    /\ InStage
    /\ pipeline[cur].name = "filter"
    /\ sig.t = "item"
    /\ ApplyBody(filter_cmd(cur, pipeline[cur], sig.item, fs))

ToStep ==
    /\ InStage
    /\ pipeline[cur].name = "to"
    /\ sig.t = "item"
    /\ ApplyBody(to_cmd(cur, pipeline[cur], sig.item, fs))

InfoStep ==
    /\ InStage
    /\ pipeline[cur].name = "info"
    /\ sig.t = "item"
    /\ ApplyBody(info_cmd(cur, pipeline[cur], sig.item, fs))

PrintStep ==
    /\ InStage
    /\ pipeline[cur].name = "print"
    /\ sig.t = "item"
    /\ ApplyBody(print_cmd(cur, pipeline[cur], sig.item, fs))

\* the input of a @processor stage is exhausted: its generator returns
LoopEnd ==
    /\ InStage
    /\ ~IsSource(pipeline[cur])
    /\ sig.t = "stop"
    /\ GenStep(GenState("returned", 0), cur + 1, Stop, log, emitted, recv, raised, fs)

\* an exception raised upstream arrives in a generator: nothing in the
\* generator catches it, the generator dies and the exception goes on
Propagate ==
    /\ InStage
    /\ sig.t = "exc"
    /\ GenStep(GenState("raised", gen[cur].ph), cur + 1, sig, log, emitted, recv,
               raised, fs)

\* generator.new_func moves to its k-th yield-from, or returns after the last
EnterPhase(k) ==
    IF k > Len(generatorBody)
    THEN GenStep(GenState("returned", k), cur + 1, Stop, log, emitted, recv, raised, fs)
    ELSE IF generatorBody[k] = "stream"
    THEN GenStep(GenState("running", k), cur - 1, Call, log, emitted, recv, raised, fs)
    ELSE LET r == read_cmd(cur, pipeline[cur], fs)
         IN  IF r.exc = NoExc
             THEN GenStep(GenState("suspended", k), cur + 1, ItemSig(r.out),
                          log \o r.eff, [emitted EXCEPT ![cur] = Append(@, r.out)],
                          recv, raised, r.fs)
             ELSE GenStep(GenState("raised", k), cur + 1, ExcSig(r.exc),
                          log \o r.eff, emitted, recv, Append(raised, r.exc), r.fs)

\* first next() on a @generator stage
SourceStart ==
    /\ InStage
    /\ IsSource(pipeline[cur])
    /\ sig.t = "call"
    /\ gen[cur].st = "created"
    /\ EnterPhase(1)

\* next() on a @generator stage suspended after forwarding an upstream item
SourceResumeStream ==
    /\ InStage
    /\ IsSource(pipeline[cur])
    /\ sig.t = "call"
    /\ gen[cur].st = "suspended"
    /\ generatorBody[gen[cur].ph] = "stream"
    /\ GenStep(GenState("running", gen[cur].ph), cur - 1, Call, log, emitted,
               recv, raised, fs)

\* next() on a @generator stage suspended at read_cmd's yield: read_cmd
\* runs off its end
SourceResumeOwn ==
    /\ InStage
    /\ IsSource(pipeline[cur])
    /\ sig.t = "call"
    /\ gen[cur].st = "suspended"
    /\ generatorBody[gen[cur].ph] = "own"
    /\ EnterPhase(gen[cur].ph + 1)

\* an upstream item arrives in `yield from stream'
SourceForward ==
    /\ InStage
    /\ IsSource(pipeline[cur])
    /\ sig.t = "item"
    /\ LET o == yield_from_stream(cur, sig.item)
       IN  GenStep(GenState(IF o.emit = <<>> THEN "running" ELSE "suspended",
                            gen[cur].ph),
                   o.to, o.sig, log,
                   [emitted EXCEPT ![cur] = @ \o o.emit],
                   [recv EXCEPT ![cur] = Append(@, sig.item)], raised, fs)

\* the upstream is exhausted: `yield from stream' ends
SourceStreamEnd ==
    /\ InStage
    /\ IsSource(pipeline[cur])
    /\ sig.t = "stop"
    /\ EnterPhase(gen[cur].ph + 1)

Next ==
    \/ Fold
    \/ StartDrain
    \/ DrainNext
    \/ DrainStop
    \/ DrainRaise
    \/ EmptyStream
    \/ TransformNext
    \/ HeadStep
    \/ FilterStep
    \/ ToStep
    \/ InfoStep
    \/ PrintStep
    \/ LoopEnd
    \/ Propagate
    \/ SourceStart
    \/ SourceResumeStream
    \/ SourceResumeOwn
    \/ SourceForward
    \/ SourceStreamEnd

Spec == Init /\ [][Next]_vars

(* ------------------- args_to_dict on its own inputs --------------------- *)
InitArgs ==
    /\ arg \in Strings
    /\ parsed = NotParsed
    /\ pipeline = <<>>
    /\ pc = "args"
    /\ stream = 0
    /\ gen = <<>>
    /\ cur = 0
    /\ sig = Idle
    /\ log = <<>>
    /\ stderr = <<>>
    /\ raised = <<>>
    /\ emitted = [i \in 0..0 |-> <<>>]
    /\ recv = [i \in 1..1 |-> <<>>]
    /\ fs = InitFs
    /\ uncaught = NoExc
    /\ exitCode = -1

ParseArg ==
    /\ pc = "args"
    /\ parsed = NotParsed
    /\ parsed' = args_to_dict(arg)
    /\ UNCHANGED <<pipeVars, arg>>

NextArgs == ParseArg

SpecArgs == InitArgs /\ [][NextArgs]_vars

(* ======================== properties of the run ========================= *)
Finished == pc \in {"done", "crashed"}
Stages == 1..Len(pipeline)
IsPrefix(s, t) == Len(s) <= Len(t) /\ \A k \in 1..Len(s) : s[k] = t[k]
IsPrintOrWrite(e) == e.op \in {"print", "write"}
StageEffects(j) == SelectSeq(log, LAMBDA e : e.stage = j /\ IsPrintOrWrite(e))
Failed(i) == \E k \in 1..Len(raised) : raised[k].stage = i
Increasing(items) ==
    \A k \in 1..Len(items) : \A m \in 1..Len(items) :
        k < m => items[k].origin < items[m].origin
\* the origin of the item an effect is about; a read stage's own file check
\* and file read are about the item it is producing
EffectOrigin(e) == IF IsPrintOrWrite(e) THEN e.item.origin ELSE e.stage
ReadableRead(cmd) ==
    /\ cmd.name = "read"
    /\ InitFs[cmd.filename] # Absent
    /\ cmd.filename.ext \in {".csv", ".xlsx"}
    /\ cmd.params \in {ParamNone, ParamOk}
ExpectedDataset(i) == DataFrame(InitFs[pipeline[i].filename], i)

\* C1: whenever a stage raises, the exception never reaches the pipeline
\* composer: the drain loop ends normally and the process exits 0.
C1_FailSoft ==
    raised # <<>> => (pc # "crashed" /\ uncaught = NoExc /\ exitCode # 1)

\* C2: when the run has ended, every exception a stage raised has a message
\* carrying its text on the error channel.
C2_EveryFailureReported ==
    Finished =>
        \A k \in 1..Len(raised) :
            \E m \in 1..Len(stderr) : stderr[m].text = raised[k].text

ReadMissingHead == <<Read(MissingCsv, ParamNone), HeadC>>
ReadFilterBadTo == <<Read(ACsv, ParamNone), Filter(BadExpr), To(OutCsv, ParamNone)>>

\* C3: a stage performs a print or a write only for an item the stage before
\* it produced, one effect per item and in the same order; a stage behind a
\* stage that failed without producing anything (no source in between) has
\* no effect at all; in read(missing.csv) head nothing is printed, and in
\* read(a.csv) filter(bad) to(out.csv) nothing is written and out.csv stays
\* absent.
C3_NoEffectWithoutItem ==
    /\ \A j \in Stages :
          ~IsSource(pipeline[j]) =>
              LET eff == StageEffects(j)
              IN  /\ Len(eff) <= Len(emitted[j - 1])
                  /\ \A k \in 1..Len(eff) :
                        eff[k].item.origin = emitted[j - 1][k].origin
    /\ \A i \in Stages : \A j \in Stages :
          ( /\ i < j
            /\ Failed(i)
            /\ emitted[i] = <<>>
            /\ \A m \in (i + 1)..j : ~IsSource(pipeline[m]) )
          => StageEffects(j) = <<>>
    /\ pipeline = ReadMissingHead =>
          \A k \in 1..Len(log) : log[k].op # "print"
    /\ pipeline = ReadFilterBadTo =>
          /\ \A k \in 1..Len(log) : log[k].op # "write"
          /\ fs[OutCsv] = Absent

C3_Witness ==
    /\ pipeline = ReadFilterBadTo
    /\ pc = "crashed"
    /\ Failed(2)
    /\ recv[2] # <<>>

\* C4: a failure ends only the failing stage's output: when the run has
\* ended, every read stage whose file is readable has read its file and
\* emitted its dataset, whatever happened in the other stages.
C4_Containment ==
    Finished =>
        \A i \in Stages :
            ReadableRead(pipeline[i]) =>
                /\ \E k \in 1..Len(log) : log[k].stage = i /\ log[k].op = "read"
                /\ \E k \in 1..Len(emitted[i]) : emitted[i][k] = ExpectedDataset(i)

\* C5: what a read stage has emitted is always a prefix of the items of its
\* incoming stream followed by its own dataset; its own dataset comes only
\* after the incoming stream has ended and all its items were forwarded;
\* once the stage has returned, its output is exactly that sequence; and n
\* reads of readable files in a row deliver exactly their n datasets, in
\* command-line order, to the next stage.
C5_SourceOutput ==
    /\ \A i \in Stages :
          IsSource(pipeline[i]) =>
              LET up == emitted[i - 1]
                  full == Append(up, ExpectedDataset(i))
              IN  /\ IsPrefix(emitted[i], full)
                  /\ Len(emitted[i]) > Len(up) => (i = 1 \/ gen[i - 1].st = "returned")
                  /\ gen[i].st = "returned" => emitted[i] = full
    /\ \A n \in Stages :
          ( /\ \A i \in 1..n : ReadableRead(pipeline[i])
            /\ pc = "done" )
          => /\ emitted[n] = [i \in 1..n |-> ExpectedDataset(i)]
             /\ recv[n + 1] = emitted[n]

C5_Witness ==
    /\ pipeline = <<Read(ACsv, ParamNone), Read(BCsv, ParamNone), InfoC>>
    /\ pc = "done"
    /\ recv[3] = <<DataFrame(Content("A", 0), 1), DataFrame(Content("B", 0), 2)>>

\* C6: every stage receives and emits items in the order of the sources that
\* produced them; a transform emits its k-th item for the k-th item it
\* received, and a read stage forwards the incoming items in the order it
\* received them.
C6_OrderPreserved ==
    /\ \A j \in 1..(Len(pipeline) + 1) : Increasing(recv[j])
    /\ \A i \in Stages :
          /\ Increasing(emitted[i])
          /\ IsPrefix(recv[i + 1], emitted[i])
          /\ ~IsSource(pipeline[i]) =>
                \A k \in 1..Len(emitted[i]) :
                    emitted[i][k].origin = recv[i][k].origin
          /\ IsSource(pipeline[i]) =>
                SelectSeq(emitted[i], LAMBDA x : x.origin # i) = recv[i]

C6_Witness ==
    /\ pipeline = <<Read(ACsv, ParamNone), Read(BCsv, ParamNone), Filter(GoodExpr)>>
    /\ pc = "done"
    /\ Len(emitted[3]) = 2
    /\ Len(recv[4]) = 2

\* C7: while process_commands is folding, no stage body has run: nothing was
\* checked, read, printed, written or reported, no stage raised and no
\* generator was started; any such effect exists only once every stage has
\* been folded and the drain loop was entered.
C7_LazyComposition ==
    LET untouched == /\ log = <<>>
                     /\ stderr = <<>>
                     /\ raised = <<>>
                     /\ fs = InitFs
                     /\ \A i \in Stages : gen[i].st \in {"absent", "created"}
    IN  /\ pc = "fold" => untouched
        /\ ~untouched => (stream = Len(pipeline) /\ pc # "fold")

C7_Witness ==
    /\ Len(pipeline) = 3
    /\ pc = "drain"
    /\ stream = 3
    /\ Len(log) = 1
    /\ log[1].op = "isfile"

\* C8: effects happen item by item: everything done for an item (its file
\* check and read, then the print or write of each stage it passes, in stage
\* order) comes before anything done for the next item, so in
\* read(a.csv) read(b.csv) info the print of a precedes the file check of
\* b.csv; at no time is more than one item in flight between stages; and
\* there is one pull chain, driven by the drain: the generators that are
\* running are exactly those between the frame in control and the drain.
C8_PullOneAtATime ==
    /\ \A p \in 1..Len(log) : \A q \in 1..Len(log) :
          p < q =>
              /\ EffectOrigin(log[p]) <= EffectOrigin(log[q])
              /\ EffectOrigin(log[p]) = EffectOrigin(log[q])
                    => log[p].stage <= log[q].stage
    /\ \A i \in Stages : Len(emitted[i]) - Len(recv[i + 1]) \in {0, 1}
    /\ Cardinality({i \in Stages : Len(emitted[i]) > Len(recv[i + 1])}) <= 1
    /\ pc = "drain" =>
          \A i \in Stages :
              /\ i > cur => gen[i].st = "running"
              /\ i < cur => gen[i].st # "running"
    /\ pipeline = <<Read(ACsv, ParamNone), Read(BCsv, ParamNone), InfoC>> =>
          \A q \in 1..Len(log) :
              (log[q].stage = 2 /\ log[q].op \in {"isfile", "read"}) =>
                  \E p \in 1..(q - 1) :
                      /\ log[p].stage = 3
                      /\ log[p].op = "print"
                      /\ log[p].item = DataFrame(Content("A", 0), 1)

C8_Witness ==
    /\ pipeline = <<Read(ACsv, ParamNone), Read(BCsv, ParamNone), InfoC>>
    /\ pc = "drain"
    /\ Len(log) = 7
    /\ log[4] = Effect(3, "print", NoFile, DataFrame(Content("A", 0), 1))
    /\ log[5] = Effect(2, "isfile", BCsv, NoItem)

(* ---------------- properties of args_to_dict (SpecArgs) ----------------- *)
\* the segments of a string: the maximal runs without '|'
SegmentBounds(s) ==
    {b \in (1..(Len(s) + 1)) \X (0..Len(s)) :
        /\ b[1] <= b[2] + 1
        /\ (b[1] = 1 \/ s[b[1] - 1] = "|")
        /\ (b[2] = Len(s) \/ s[b[2] + 1] = "|")
        /\ \A i \in b[1]..b[2] : s[i] # "|"}
Segments(s) == {SubSeq(s, b[1], b[2]) : b \in SegmentBounds(s)}
EqualsAt(t) == {i \in 1..Len(t) : t[i] = "="}
IsKeyValue(t) == Cardinality(EqualsAt(t)) = 1
KeyOf(t) == SubSeq(t, 1, (CHOOSE i \in EqualsAt(t) : TRUE) - 1)
ValueOf(t) == SubSeq(t, (CHOOSE i \in EqualsAt(t) : TRUE) + 1, Len(t))
LooseParamString(s) == s = <<>> \/ \A t \in Segments(s) : IsKeyValue(t)
LiteralOrRaw(text) ==
    IF literal_eval(text).ok THEN IntVal(literal_eval(text).v) ELSE StrVal(text)

\* C9: for a string of '|'-separated key=value segments, args_to_dict
\* returns a mapping whose keys are exactly the keys of the segments and
\* where each key carries the literal value of the value text of a segment
\* with that key when the text is a literal, and the raw text otherwise; the
\* empty string gives the empty mapping.
C9_ArgsToDict ==
    (parsed # NotParsed /\ LooseParamString(arg)) =>
        /\ parsed.ok
        /\ arg = <<>> => parsed.d = EmptyDict
        /\ arg # <<>> =>
              /\ DOMAIN parsed.d = {KeyOf(t) : t \in Segments(arg)}
              /\ \A k \in DOMAIN parsed.d :
                    \E t \in Segments(arg) :
                        KeyOf(t) = k /\ parsed.d[k] = LiteralOrRaw(ValueOf(t))

C9_Witness ==
    /\ arg = <<"k", "=", "1", "|", "=">>
    /\ parsed.ok
    /\ parsed.d[<<"k">>] = IntVal(1)
    /\ parsed.d[<<>>] = StrVal(<<>>)

\* C10: when the run has ended, every read or to stage whose filename has an
\* extension absent from the extension table has raised an error.
C10_UnknownExtensionIsError ==
    Finished =>
        \A i \in Stages :
            ( \/ /\ pipeline[i].name = "read"
                 /\ pipeline[i].filename.ext \notin CONFIG.read_functions
              \/ /\ pipeline[i].name = "to"
                 /\ pipeline[i].filename.ext \notin CONFIG.to_functions )
            => Failed(i)

(* --------------- two runs of the program: write, then read back --------- *)
RoundTripPipelines ==
    {<<Read(x, ParamNone), To(y, ParamNone)>> :
        x \in {ACsv, BCsv}, y \in {OutCsv, ACsv, BCsv}}

InitRoundTrip ==
    /\ pipeline \in RoundTripPipelines
    /\ pc = "fold"
    /\ stream = 0
    /\ gen = [i \in 1..Len(pipeline) |-> GenState("absent", 0)]
    /\ cur = 0
    /\ sig = Idle
    /\ log = <<>>
    /\ stderr = <<>>
    /\ raised = <<>>
    /\ emitted = [i \in 0..Len(pipeline) |-> <<>>]
    /\ recv = [i \in 1..(Len(pipeline) + 1) |-> <<>>]
    /\ fs = InitFs
    /\ uncaught = NoExc
    /\ exitCode = -1
    /\ arg = <<>>
    /\ parsed = NotParsed

\* the first process has exited normally; the program is started again as
\* `read -f y' on the file the first run wrote.  The file system is what
\* the first run left; log keeps the effects of both runs.
SecondRun ==
    /\ pc = "done"
    /\ Len(pipeline) = 2
    /\ pipeline' = <<Read(pipeline[2].filename, ParamNone)>>
    /\ pc' = "fold"
    /\ stream' = 0
    /\ gen' = [i \in 1..1 |-> GenState("absent", 0)]
    /\ cur' = 0
    /\ sig' = Idle
    /\ stderr' = <<>>
    /\ raised' = <<>>
    /\ emitted' = [i \in 0..1 |-> <<>>]
    /\ recv' = [i \in 1..2 |-> <<>>]
    /\ uncaught' = NoExc
    /\ exitCode' = -1
    /\ UNCHANGED <<fs, log, arg, parsed>>

NextRoundTrip ==
    \/ Fold
    \/ StartDrain
    \/ DrainNext
    \/ DrainStop
    \/ EmptyStream
    \/ TransformNext
    \/ ToStep
    \/ LoopEnd
    \/ SourceStart
    \/ SourceResumeOwn
    \/ SourceStreamEnd
    \/ SecondRun

SpecRoundTrip == InitRoundTrip /\ [][NextRoundTrip]_vars

\* same rows, same columns and same values
SameDataset(x, y) ==
    /\ x.kind = "df"
    /\ y.kind = "df"
    /\ x.data = y.data
    /\ x.q = y.q
    /\ x.idx = y.idx

\* C11: when the second run (read of the file the first run wrote) has
\* ended, the dataset it read equals the dataset the first run read and
\* wrote.
C11_RoundTrip ==
    (Len(pipeline) = 1 /\ pc = "done") =>
        /\ Len(emitted[1]) = 1
        /\ \E k \in 1..Len(log) :
              /\ log[k].op = "write"
              /\ SameDataset(emitted[1][1], log[k].item)

ReadAReadMissingInfo ==
    <<Read(ACsv, ParamNone), Read(MissingCsv, ParamNone), InfoC>>

\* C12: once a stage has raised, every item it emitted before has been
\* received by the stage after it, and by every later stage in turn, each
\* of which has emitted its output for it and (if a transform) done its
\* print or write for it; in read(a.csv) read(missing.csv) info the print
\* of a by info precedes the file check in which the second read fails.
C12_EmittedItemsNotLost ==
    /\ \A i \in Stages :
          Failed(i) =>
              \A j \in i..Len(pipeline) :
                  /\ recv[j + 1] = emitted[j]
                  /\ j > i =>
                        /\ Len(emitted[j]) = Len(recv[j])
                        /\ ~IsSource(pipeline[j]) =>
                              Len(StageEffects(j)) = Len(recv[j])
    /\ (pipeline = ReadAReadMissingInfo /\ Failed(2)) =>
          \E p \in 1..Len(log) :
              /\ log[p] = Effect(3, "print", NoFile, DataFrame(Content("A", 0), 1))
              /\ \A q \in 1..Len(log) : log[q].stage = 2 => p < q

C12_Witness ==
    /\ pipeline = ReadAReadMissingInfo
    /\ pc = "crashed"
    /\ uncaught = Exc("FileNotFoundError", 2, "missing")
    /\ Len(StageEffects(3)) = 1
    /\ emitted[2] = <<DataFrame(Content("A", 0), 1)>>

(* ------------- the adapter on every kind of wrapped function ------------ *)
\* longest pipeline explored when the wrapped function may raise at call
MaxAdapterStages == 2

RECURSIVE AdapterPipelinesOfLen(_)
AdapterPipelinesOfLen(n) ==
    IF n = 0 THEN {<<>>}
    ELSE {Append(p, c) : p \in AdapterPipelinesOfLen(n - 1),
                         c \in Commands \cup {RaisingC}}

AdapterPipelines == UNION {AdapterPipelinesOfLen(n) : n \in 0..MaxAdapterStages}

InitAdapter ==
    /\ pipeline \in AdapterPipelines
    /\ pc = "fold"
    /\ stream = 0
    /\ gen = [i \in 1..Len(pipeline) |-> GenState("absent", 0)]
    /\ cur = 0
    /\ sig = Idle
    /\ log = <<>>
    /\ stderr = <<>>
    /\ raised = <<>>
    /\ emitted = [i \in 0..Len(pipeline) |-> <<>>]
    /\ recv = [i \in 1..(Len(pipeline) + 1) |-> <<>>]
    /\ fs = InitFs
    /\ uncaught = NoExc
    /\ exitCode = -1
    /\ arg = <<>>
    /\ parsed = NotParsed

\* the consumer of a stage whose adapter returned None iterates None:
\* TypeError is raised in the consumer (the next stage's generator at its
\* `for df in dfs' or `yield from stream', or the drain loop)
NoneStream ==
    /\ InStage
    /\ gen[cur].st = "None"
    /\ sig.t = "call"
    /\ LET e == Exc("TypeError", cur + 1, "'NoneType' object is not iterable")
       IN  /\ cur' = cur + 1
           /\ sig' = ExcSig(e)
           /\ raised' = Append(raised, e)
    /\ UNCHANGED <<pipeline, pc, stream, gen, log, stderr, emitted, recv, fs,
                   uncaught, exitCode, arg, parsed>>

NextAdapter ==
    \/ Fold
    \/ StartDrain
    \/ DrainNext
    \/ DrainStop
    \/ DrainRaise
    \/ EmptyStream
    \/ TransformNext
    \/ HeadStep
    \/ FilterStep
    \/ ToStep
    \/ InfoStep
    \/ PrintStep
    \/ LoopEnd
    \/ Propagate
    \/ SourceStart
    \/ SourceResumeStream
    \/ SourceResumeOwn
    \/ SourceForward
    \/ SourceStreamEnd
    \/ NoneStream

SpecAdapter == InitAdapter /\ [][NextAdapter]_vars

\* C13: whatever the wrapped function does when it is called, the stream
\* the adapted stage returned is an iterable, never None.
C13_TotalStage ==
    \A i \in 1..stream : gen[i].st # "None"

HasBareSegment(s) == s # <<>> /\ \E t \in Segments(s) : EqualsAt(t) = {}
IndexErrorAt(i) == Exc("IndexError", i, "list index out of range")

\* C14: for a string with a segment that holds no '=', args_to_dict raises
\* and returns no mapping; a read stage (on an existing file) and a to stage
\* (on a dataset, known extension) given that string as params raise that
\* error as their own, yield nothing and write nothing.
C14_MalformedFails ==
    (parsed # NotParsed /\ HasBareSegment(arg)) =>
        /\ ~parsed.ok
        /\ parsed.err = "IndexError"
        /\ parsed.d = EmptyDict
        /\ LET r == read_cmd(1, Read(ACsv, arg), InitFs)
           IN  r.exc = IndexErrorAt(1) /\ r.out = NoItem
        /\ LET w == to_cmd(2, To(OutCsv, arg), DataFrame(InitFs[ACsv], 1), InitFs)
           IN  w.exc = IndexErrorAt(2) /\ w.out = NoItem /\ w.eff = <<>> /\ w.fs = InitFs

C14_Witness ==
    /\ arg = <<"k", "=", "1", "|">>
    /\ parsed # NotParsed
    /\ ~parsed.ok
    /\ parsed.err = "IndexError"

\* C15: a transform stage never has emitted more items than it has pulled;
\* while it has not failed it has emitted exactly one item per item pulled,
\* the k-th for the k-th (filter: the filtered dataset, the others: one
\* sentinel), and when it failed only the item it failed on is missing.
C15_OneToOne ==
    \A i \in Stages :
        ~IsSource(pipeline[i]) =>
            /\ Len(emitted[i]) <= Len(recv[i])
            /\ ~Failed(i) => Len(emitted[i]) = Len(recv[i])
            /\ Failed(i) => Len(emitted[i]) = Len(recv[i]) - 1
            /\ \A k \in 1..Len(emitted[i]) :
                  IF pipeline[i].name = "filter"
                  THEN emitted[i][k] = [recv[i][k] EXCEPT !.q = @ + 1]
                  ELSE emitted[i][k] = NoneItem(recv[i][k].origin)

C15_Witness ==
    /\ pipeline = <<Read(ACsv, ParamNone), Read(BCsv, ParamNone), HeadC>>
    /\ pc = "done"
    /\ Len(recv[3]) = 2
    /\ emitted[3] = <<NoneItem(1), NoneItem(2)>>

NoReadStage == \A i \in Stages : ~IsSource(pipeline[i])

\* C16: in a pipeline without a read stage nothing is ever checked, read,
\* printed, written or reported, no stage receives an item, no exception is
\* raised, the run never stops before its end, and it ends normally with
\* exit status 0.
C16_NoReadNoEffect ==
    NoReadStage =>
        /\ log = <<>>
        /\ stderr = <<>>
        /\ raised = <<>>
        /\ fs = InitFs
        /\ \A i \in Stages : recv[i] = <<>> /\ emitted[i] = <<>>
        /\ uncaught = NoExc
        /\ pc \in {"fold", "drain"} => ENABLED Next
        /\ Finished => (pc = "done" /\ exitCode = 0)

C16_Witness ==
    /\ pipeline = <<HeadC, To(OutTxt, ParamNone), Filter(BadExpr)>>
    /\ pc = "done"
    /\ exitCode = 0
    /\ \A i \in Stages : gen[i].st = "returned"

SentinelStages == {"head", "to", "info", "print"}
ReadHeadTo == <<Read(ACsv, ParamNone), HeadC, To(OutCsv, ParamNone)>>

\* C17: head, to, info and print emit only None; a transform that comes
\* after one of them that has emitted, and that receives an item, receives
\* None first, raises on it, and has printed, written and emitted nothing;
\* read(a.csv) head to(out.csv) never writes out.csv and ends in the error
\* of to.
C17_SentinelBreaksDownstream ==
    /\ \A i \in Stages :
          pipeline[i].name \in SentinelStages =>
              \A k \in 1..Len(emitted[i]) : emitted[i][k].kind = "None"
    /\ \A j \in Stages :
          ( /\ ~IsSource(pipeline[j])
            /\ recv[j] # <<>>
            /\ \E i \in 1..(j - 1) :
                  pipeline[i].name \in SentinelStages /\ emitted[i] # <<>> )
          => /\ recv[j][1].kind = "None"
             /\ Len(recv[j]) = 1
             /\ Failed(j)
             /\ StageEffects(j) = <<>>
             /\ emitted[j] = <<>>
    /\ pipeline = ReadHeadTo =>
          /\ \A k \in 1..Len(log) : log[k].op # "write"
          /\ fs[OutCsv] = Absent
          /\ Finished => (pc = "crashed" /\ Failed(3))

C17_Witness ==
    /\ pipeline = ReadHeadTo
    /\ pc = "crashed"
    /\ uncaught = Exc("AttributeError", 3, "to_csv")
    /\ recv[3] = <<NoneItem(1)>>

ReadAReadBTo == <<Read(ACsv, ParamNone), Read(BCsv, ParamNone), To(OutCsv, ParamNone)>>
WritableTo(cmd) ==
    /\ cmd.name = "to"
    /\ cmd.filename.ext \in {".csv", ".xlsx"}
    /\ cmd.filename.dir = ""
    /\ cmd.params \in {ParamNone, ParamOk}

\* C18: the k-th write of a to stage is the write of the k-th item it
\* received, a dataset, to the stage's own filename; a to stage whose
\* destination is writable has written once for each dataset received; and
\* after read(a.csv) read(b.csv) to(out.csv) there were two writes and
\* out.csv holds the dataset of b.csv.
C18_WritePerDataset ==
    /\ \A j \in Stages :
          pipeline[j].name = "to" =>
              LET w == StageEffects(j)
              IN  /\ Len(w) <= Len(recv[j])
                  /\ \A k \in 1..Len(w) :
                        /\ w[k].op = "write"
                        /\ w[k].file = pipeline[j].filename
                        /\ w[k].item = recv[j][k]
                        /\ w[k].item.kind = "df"
                  /\ ( /\ WritableTo(pipeline[j])
                       /\ \A k \in 1..Len(recv[j]) : recv[j][k].kind = "df" )
                     => Len(w) = Len(recv[j])
    /\ pipeline = ReadAReadBTo =>
          /\ Len(StageEffects(3)) = 0 => fs[OutCsv] = Absent
          /\ Len(StageEffects(3)) = 1 => fs[OutCsv].data = "A"
          /\ Len(StageEffects(3)) = 2 => fs[OutCsv] = [data |-> "B", q |-> 0, idx |-> 1]
          /\ pc = "done" => Len(StageEffects(3)) = 2

C18_Witness ==
    /\ pipeline = ReadAReadBTo
    /\ pc = "done"
    /\ Len(StageEffects(3)) = 2
    /\ fs[OutCsv].data = "B"

Min(S) == CHOOSE x \in S : \A y \in S : x <= y
FirstEq(t) == Min(EqualsAt(t))
SecondEqOrEnd(t) ==
    IF Cardinality(EqualsAt(t)) >= 2 THEN Min(EqualsAt(t) \ {FirstEq(t)})
    ELSE Len(t) + 1
KeyBeforeFirstEq(t) == SubSeq(t, 1, FirstEq(t) - 1)
TextBetweenEqs(t) == SubSeq(t, FirstEq(t) + 1, SecondEqOrEnd(t) - 1)
SegmentAt(s, b) == SubSeq(s, b[1], b[2])
AllSegmentsHaveEq(s) == s # <<>> /\ \A t \in Segments(s) : EqualsAt(t) # {}
IsLastWithItsKey(s, b) ==
    \A c \in SegmentBounds(s) :
        KeyBeforeFirstEq(SegmentAt(s, c)) = KeyBeforeFirstEq(SegmentAt(s, b))
            => c[1] <= b[1]

\* C19: when every segment holds at least one '=', args_to_dict returns a
\* mapping without error; its keys are the texts before the first '=' of
\* the segments; each key carries the literal value, or else the raw text,
\* of what lies between the first and the second '=' (or the end) of the
\* LAST segment with that key; what follows a second '=' is dropped.
C19_SplitOnEveryEq ==
    (parsed # NotParsed /\ AllSegmentsHaveEq(arg)) =>
        /\ parsed.ok
        /\ DOMAIN parsed.d = {KeyBeforeFirstEq(t) : t \in Segments(arg)}
        /\ \A b \in SegmentBounds(arg) :
              IsLastWithItsKey(arg, b) =>
                  parsed.d[KeyBeforeFirstEq(SegmentAt(arg, b))]
                      = LiteralOrRaw(TextBetweenEqs(SegmentAt(arg, b)))

C19_Witness ==
    /\ arg = <<"k", "=", "1", "=", "0">>
    /\ parsed.ok
    /\ DOMAIN parsed.d = {<<"k">>}
    /\ parsed.d[<<"k">>] = IntVal(1)

====
